---- MODULE Spec2Model ----
(***************************************************************************)
(* State-machine model of the debounced, URL-synchronised search input     *)
(* (src/src/components/SearchBar.tsx): the useDebounce hook, the six        *)
(* effects of SearchBar, its event handlers and its rendered output, run    *)
(* under React's render / commit / passive-effect cycle.                    *)
(*                                                                         *)
(* One action is one task of the event loop: the handler (or the timer      *)
(* callback), the re-render its state updates cause, and the effects of     *)
(* every render, repeated until no state update is pending.  Time is a      *)
(* discrete clock; a timer that is due keeps the clock from advancing, but  *)
(* an input event may still be handled before it.                           *)
(*                                                                         *)
(* Two pure functions are modelled beside it, each under a specification   *)
(* of its own that draws the argument in its initial states and applies    *)
(* the function in one step: renderBlocks (src/src/renderBlocks.tsx, with  *)
(* src/src/registry.ts) under RenderSpec, and transformTickets             *)
(* (src/docs/README.md) under TicketSpec.                                  *)
(*                                                                         *)
(* The SearchBar is also run under its two kinds of parent: TicketList     *)
(* (src/src/components/TicketList.tsx), which keeps searchTerm and sort,   *)
(* under ListSpec, and a parent that passes its own state as value and the *)
(* setter as onChange, under ControlledSpec.  The list TicketList shows    *)
(* (its filter and sort) is modelled as a function under FilterSpec.       *)
(***************************************************************************)
EXTENDS Integers, Sequences, FiniteSets, TLC

\* ------------------------------------------------------------------ bounds
MaxLen == 1
MaxEvents == 2
MaxDelay == 2

Alphabet == {"a", " "}
Texts == UNION {[1..n -> Alphabet] : n \in 0..MaxLen}
Empty == <<>>
\* the texts a parent passes as the value prop
PropValues == {Empty, <<"a">>}
Delays == {0, MaxDelay}
\* URLSearchParams.get returns null when the parameter is not in the address
NoParam == <<"null">>

\* ------------------------------------------------------------- pure helpers
\* String.prototype.trim, as used by the URL update effect
RECURSIVE TrimLeft(_)
TrimLeft(t) == IF t # <<>> /\ Head(t) = " " THEN TrimLeft(Tail(t)) ELSE t

RECURSIVE TrimRight(_)
TrimRight(t) ==
  IF t # <<>> /\ t[Len(t)] = " " THEN TrimRight(SubSeq(t, 1, Len(t) - 1)) ELSE t

Trim(t) == TrimRight(TrimLeft(t))

\* url.searchParams.set + url.toString(): the query value is serialised as
\* application/x-www-form-urlencoded (a space becomes "+")
EncodeChar(ch) == IF ch = " " THEN "+" ELSE ch
Encode(t) == [i \in DOMAIN t |-> EncodeChar(t[i])]

\* new URLSearchParams(window.location.search).get(urlParam)
DecodeChar(ch) == IF ch = "+" \/ ch = "%20" THEN " " ELSE ch
Decode(q) == [i \in DOMAIN q |-> DecodeChar(q[i])]
\* (variant) the parameter is looked up under another name and not found
UrlGet_OtherParam(u) == NoParam

UrlGet(u) == IF u = NoParam THEN NoParam ELSE Decode(u)

Min(a, b) == IF a < b THEN a ELSE b

\* transformTickets has not been called
NoInput == [t |-> "undefined", items |-> <<>>]

\* ------------------------------------------------------------------- state
VARIABLES
  value,            \* prop value (default '')
  onChange,         \* TRUE iff the parent supplied an onChange callback
  debounceMs,       \* prop debounceMs, in clock ticks
  syncWithUrl,      \* prop syncWithUrl
  hasLocation,      \* window.location exists
  phase,            \* "new" (not yet mounted), "mounted", "unmounted"
  inputValue,       \* useState(value): current
  isClient,         \* useState(false)
  isFirstRenderRef, \* SearchBar's useRef(true)
  debouncedValue,   \* useDebounce: useState(value): committed
  isFirstRender,    \* useDebounce: useState(true)
  hasChanged,       \* useDebounce: useState(false)
  timers,           \* pending setTimeout callbacks: sequence of [val, rem]
  handler,          \* index in timers of the handle the effect's cleanup holds, 0 if none
  url,              \* encoded value of the query parameter urlParam, or NoParam
  urlWritten,       \* history.replaceState has been called
  urlRead,          \* window.location.search / .href has been read
  threw,            \* an exception escaped an effect
  view,             \* what the last render put on screen
  fired,            \* arguments of the onChange calls made by the last action
  cancelled,        \* the last action cancelled a pending timer (clearTimeout took effect)
  lastAct,          \* the last action taken
  lastChange,       \* what last changed the text: "none", "seed", "key", "clear", "prop"
  sinceChange,      \* clock ticks since the text last changed (capped at MaxDelay)
  events,           \* number of user / parent events so far
  urlAtMount,       \* decoded value of the parameter when the component mounted
  pc,               \* "SearchBar", or the position of a function call: "call", "return"
  blocks,           \* renderBlocks: the argument
  rendered,         \* renderBlocks: the returned array of elements
  input,            \* transformTickets: the argument
  tickets,          \* transformTickets: the returned array of Ticket; TicketList: the prop
  mode,             \* who renders the SearchBar: "free" (a parent that passes any value
                    \* and ignores onChange), "controlled" (value is the parent's state
                    \* and onChange its setter), "TicketList"
  searchTerm,       \* the parent's state: TicketList's searchTerm, the controlled parent's s
  sort,             \* TicketList: useState('price-asc')
  displayed,        \* TicketList: filteredAndSortedTickets of the last render
  lastSet           \* the value the controlled parent last set by itself, NoParam once
                    \* the user has changed the text since

props == <<value, onChange, debounceMs, syncWithUrl, hasLocation>>
hooks == <<inputValue, isClient, isFirstRenderRef, debouncedValue, isFirstRender, hasChanged>>
env == <<timers, handler, url, urlWritten, urlRead, threw>>
hist == <<fired, cancelled, lastAct, lastChange, sinceChange, events, urlAtMount>>
calls == <<pc, blocks, rendered, input, tickets, displayed>>
parent == <<mode, searchTerm, sort, lastSet>>
vars == <<props, phase, hooks, env, view, hist, calls, parent>>

NoView == [value |-> Empty, clear |-> FALSE, searching |-> FALSE]

\* The component instance as one record, threaded through a render pass
Instance ==
  [value |-> value, inputValue |-> inputValue, isClient |-> isClient,
   isFirstRenderRef |-> isFirstRenderRef, debouncedValue |-> debouncedValue,
   isFirstRender |-> isFirstRender, hasChanged |-> hasChanged,
   timers |-> timers, handler |-> handler, url |-> url, urlWritten |-> urlWritten,
   view |-> view, fired |-> <<>>, cancelled |-> FALSE, seeded |-> FALSE,
   syncWithUrl |-> syncWithUrl, hasLocation |-> hasLocation,
   urlRead |-> urlRead, threw |-> threw, mode |-> mode, searchTerm |-> searchTerm]

\* The values React compares to decide whether another render is needed
StateOf(c) ==
  <<c.value, c.inputValue, c.isClient, c.debouncedValue, c.isFirstRender, c.hasChanged,
    c.searchTerm>>

\* ------------------------------------------------------------ rendering
\* (variant) the span is rendered without the debounceMs > 0 guard
Render_NoGate(c) ==
  [value |-> c.inputValue,
   clear |-> c.inputValue # Empty,
   searching |-> c.inputValue # c.debouncedValue]

\* The JSX SearchBar returns: the input's value, the clear button
\* ({inputValue && <button>}) and the "Searching..." span
\* ({debounceMs > 0 && ... inputValue !== debounced.value})
Render(c) ==
  [value |-> c.inputValue,
   clear |-> c.inputValue # Empty,
   searching |-> debounceMs > 0 /\ c.inputValue # c.debouncedValue]

\* ------------------------------------------------------------ timers
RemoveAt(s, i) == [j \in 1..(Len(s) - 1) |-> IF j < i THEN s[j] ELSE s[j + 1]]

\* (variant) the handle is dropped and the callback stays pending
ClearTimeout_Forget(x) == [x EXCEPT !.handler = 0]

\* clearTimeout(handler): cancels the callback if it is still pending
ClearTimeout(x) ==
  IF x.handler = 0 THEN x
  ELSE [x EXCEPT !.timers = RemoveAt(x.timers, x.handler), !.handler = 0,
                 !.cancelled = TRUE]

\* setTimeout(() => {...}, delay) capturing the rendered value
SetTimeout(x, v) ==
  [x EXCEPT !.timers = Append(x.timers, [val |-> v, rem |-> debounceMs]),
            !.handler = Len(x.timers) + 1]

\* ------------------------------------------------------------ effects
\* Each effect reads the values of the render it belongs to (c) and acts on
\* the running instance (x): queued state updates, timers, the address bar
\* and the parent's callback.

\* (variant) the effect returns no cleanup: a superseded timer stays pending
DebounceCleanup_Leak(x) == x

\* cleanup of the useDebounce effect, run before the effect runs again
DebounceCleanup(x) == ClearTimeout(x)

\* useDebounce effect, deps [value, delay, isFirstRender]
DebounceEffect(c, x) ==
  IF c.isFirstRender THEN [x EXCEPT !.isFirstRender = FALSE]
  ELSE SetTimeout(x, c.inputValue)

\* useEffect(() => setIsClient(true), [])
ClientEffect(c, x) == [x EXCEPT !.isClient = TRUE]

\* useEffect(() => setInputValue(value), [value])
ValueEffect(c, x) == [x EXCEPT !.inputValue = c.value]

\* (variant) the effect has deps []: it runs only before hydration, when
\* isClient is still false, and never reads the address
UrlInitEffect_MountOnly(c, x) == x

\* Initialize from URL, deps [isClient, syncWithUrl, urlParam]
UrlInitEffect(c, x) ==
  IF c.isClient /\ c.syncWithUrl /\ c.hasLocation
  THEN LET got == UrlGet(x.url)
           urlSearchValue == IF got = NoParam THEN Empty ELSE got
       IN IF urlSearchValue # Empty /\ urlSearchValue # c.inputValue
          THEN [x EXCEPT !.inputValue = urlSearchValue, !.seeded = TRUE,
                         !.urlRead = TRUE]
          ELSE [x EXCEPT !.urlRead = TRUE]
  ELSE x

\* (variant) the parent is notified of the current text, not the committed one
NotifyEffect_Current(c, x) ==
  LET y == IF onChange /\ ~x.isFirstRenderRef /\ c.hasChanged
           THEN [x EXCEPT !.fired = Append(x.fired, c.inputValue),
                          !.searchTerm = IF c.mode = "free" THEN @ ELSE c.inputValue]
           ELSE x
  IN [y EXCEPT !.isFirstRenderRef = FALSE]

\* Notify parent, deps [debounced, onChange]; debounced is a fresh object on
\* every render, so the effect runs after every render
NotifyEffect(c, x) ==
  LET y == IF onChange /\ ~x.isFirstRenderRef /\ c.hasChanged
           THEN [x EXCEPT !.fired = Append(x.fired, c.debouncedValue),
                          !.searchTerm = IF c.mode = "free" THEN @ ELSE c.debouncedValue]
           ELSE x
  IN [y EXCEPT !.isFirstRenderRef = FALSE]

\* (variant) the test is debounced.value, without trim()
UrlUpdateEffect_NoTrim(c, x) ==
  IF c.isClient /\ c.syncWithUrl /\ c.hasLocation
  THEN [x EXCEPT !.url = IF c.debouncedValue # Empty
                         THEN Encode(c.debouncedValue) ELSE NoParam,
                 !.urlWritten = TRUE, !.urlRead = TRUE]
  ELSE x

\* (variant) the effect tests only isClient && syncWithUrl and has no
\* try/catch: without a location, reading window.location.href throws
UrlUpdateEffect_NoLocationGuard(c, x) ==
  IF c.isClient /\ c.syncWithUrl
  THEN IF c.hasLocation
       THEN [x EXCEPT !.url = IF Trim(c.debouncedValue) # Empty
                              THEN Encode(c.debouncedValue) ELSE NoParam,
                      !.urlWritten = TRUE, !.urlRead = TRUE]
       ELSE [x EXCEPT !.threw = TRUE]
  ELSE x

\* Update URL, deps [isClient, debounced, syncWithUrl, urlParam]: runs after
\* every render for the same reason
UrlUpdateEffect(c, x) ==
  IF c.isClient /\ c.syncWithUrl /\ c.hasLocation
  THEN [x EXCEPT !.url = IF Trim(c.debouncedValue) # Empty
                         THEN Encode(c.debouncedValue) ELSE NoParam,
                 !.urlWritten = TRUE, !.urlRead = TRUE]
  ELSE x

\* The k-th step of a commit.  Step 0 is the render itself; step 1 the
\* cleanup of the effects about to run again; steps 2..7 the effects in
\* declaration order, each run only if its deps changed since the previous
\* render (all of them run on mount).
RunEffect(k, c, prev, mount, x) ==
  LET depsDebounce == mount \/ prev.inputValue # c.inputValue
                            \/ prev.isFirstRender # c.isFirstRender
      depsValue == mount \/ prev.value # c.value
      depsInit == mount \/ prev.isClient # c.isClient
  IN CASE k = 0 -> [x EXCEPT !.view = Render(c)]
       [] k = 1 -> IF depsDebounce /\ ~mount THEN DebounceCleanup(x) ELSE x
       [] k = 2 -> IF depsDebounce THEN DebounceEffect(c, x) ELSE x
       [] k = 3 -> IF mount THEN ClientEffect(c, x) ELSE x
       [] k = 4 -> IF depsValue THEN ValueEffect(c, x) ELSE x
       [] k = 5 -> IF depsInit THEN UrlInitEffect(c, x) ELSE x
       [] k = 6 -> NotifyEffect(c, x)
       [] k = 7 -> UrlUpdateEffect(c, x)

\* the single element of a one-element set
Only(S) == CHOOSE r \in S : TRUE

RECURSIVE RunEffects(_, _, _, _, _)
RunEffects(k, c, prev, mount, x) ==
  IF k > 7 THEN x
  ELSE Only({RunEffects(k + 1, c, prev, mount, y) : y \in {RunEffect(k, c, prev, mount, x)}})

\* One commit of the render c, the previous render being prev
Effects(c, prev, mount) == RunEffects(0, c, prev, mount, c)

\* The props of the next render: a controlled parent passes its state as value
ParentProps(x) == IF x.mode = "controlled" THEN [x EXCEPT !.value = x.searchTerm] ELSE x

\* Render, commit, and render again while an effect has changed the state
RECURSIVE Commit(_, _, _)
Commit(c, prev, mount) ==
  Only({IF StateOf(x) = StateOf(c) THEN x ELSE Commit(ParentProps(x), c, FALSE) :
          x \in {Effects(c, prev, mount)}})

\* A state update made by a handler: React re-renders only if the state
\* differs from the rendered one
Update(c) == IF StateOf(c) = StateOf(Instance) THEN c ELSE Commit(c, Instance, FALSE)

\* A new instance with the props and the environment of c: every hook has
\* its initial value
Fresh(c) ==
  [c EXCEPT !.inputValue = c.value, !.isClient = FALSE, !.isFirstRenderRef = TRUE,
            !.debouncedValue = c.value, !.isFirstRender = TRUE, !.hasChanged = FALSE,
            !.timers = <<>>, !.handler = 0, !.view = NoView]

\* (variant) the parent's render replaces the SearchBar by a new instance
\* (as with a key that changes), the old one being cleaned up
Rerender_Remount(c) == Commit(Fresh(c), Fresh(c), TRUE)

\* The parent renders again with the same props: the SearchBar renders again
Rerender(c) == Commit(c, c, FALSE)

\* (variant) unmounting leaves the timer pending
UnmountCleanup_Leak(x) == x

\* cleanup of the useDebounce effect on unmount
UnmountCleanup(x) == ClearTimeout(x)

\* ------------------------------------------------------------ actions
Writeback(x) ==
  /\ value' = x.value
  /\ inputValue' = x.inputValue
  /\ isClient' = x.isClient
  /\ isFirstRenderRef' = x.isFirstRenderRef
  /\ debouncedValue' = x.debouncedValue
  /\ isFirstRender' = x.isFirstRender
  /\ hasChanged' = x.hasChanged
  /\ timers' = x.timers
  /\ handler' = x.handler
  /\ url' = x.url
  /\ urlWritten' = x.urlWritten
  /\ urlRead' = x.urlRead
  /\ threw' = x.threw
  /\ searchTerm' = x.searchTerm
  /\ view' = x.view
  /\ fired' = x.fired
  /\ cancelled' = x.cancelled

TextChange(kind) ==
  /\ lastChange' = IF inputValue' # inputValue THEN kind ELSE lastChange
  /\ sinceChange' = IF inputValue' # inputValue THEN 0 ELSE sinceChange

Init ==
  /\ value \in PropValues
  /\ onChange \in BOOLEAN
  /\ debounceMs \in Delays
  /\ syncWithUrl \in BOOLEAN
  /\ hasLocation \in IF syncWithUrl THEN BOOLEAN ELSE {TRUE}
  /\ phase = "new"
  /\ inputValue = value
  /\ isClient = FALSE
  /\ isFirstRenderRef = TRUE
  /\ debouncedValue = value
  /\ isFirstRender = TRUE
  /\ hasChanged = FALSE
  /\ timers = <<>>
  /\ handler = 0
  /\ url \in IF hasLocation /\ syncWithUrl
             THEN {NoParam} \cup {Encode(t) : t \in Texts} ELSE {NoParam}
  /\ urlWritten = FALSE
  /\ urlRead = FALSE
  /\ threw = FALSE
  /\ view = NoView
  /\ fired = <<>>
  /\ cancelled = FALSE
  /\ lastAct = "Init"
  /\ lastChange = "none"
  /\ sinceChange = 0
  /\ events = 0
  /\ urlAtMount = NoParam
  /\ pc = "SearchBar"
  /\ blocks = <<>>
  /\ rendered = <<>>
  /\ input = NoInput
  /\ tickets = <<>>
  /\ displayed = <<>>
  /\ mode = "free"
  /\ searchTerm = Empty
  /\ sort = "price-asc"
  /\ lastSet = NoParam

\* render(<SearchBar .../>): first render, its effects, and the renders they cause
Mount ==
  /\ phase = "new"
  /\ phase' = "mounted"
  /\ \E x \in {Commit(Instance, Instance, TRUE)} :
        /\ Writeback(x)
        /\ lastChange' = IF x.seeded THEN "seed" ELSE "none"
  /\ urlAtMount' = IF syncWithUrl /\ hasLocation THEN UrlGet(url) ELSE NoParam
  /\ lastAct' = "Mount"
  /\ UNCHANGED lastSet
  /\ UNCHANGED <<calls, mode, sort>>
  /\ UNCHANGED <<onChange, debounceMs, syncWithUrl, hasLocation, sinceChange, events>>

\* handleInputChange: the user changes the text of the input to v
Keystroke(v) ==
  /\ phase = "mounted"
  /\ events < MaxEvents
  /\ v # view.value
  /\ \E x \in {Update([Instance EXCEPT !.inputValue = v])} : Writeback(x)
  /\ TextChange("key")
  /\ lastAct' = "Keystroke"
  /\ lastSet' = NoParam
  /\ UNCHANGED <<calls, mode, sort>>
  /\ events' = events + 1
  /\ UNCHANGED <<onChange, debounceMs, syncWithUrl, hasLocation, phase, urlAtMount>>

\* handleClear: the user activates the clear button, which exists only when rendered
Clear ==
  /\ phase = "mounted"
  /\ events < MaxEvents
  /\ view.clear
  /\ \E x \in {Update([Instance EXCEPT !.inputValue = Empty])} : Writeback(x)
  /\ TextChange("clear")
  /\ lastAct' = "Clear"
  /\ lastSet' = NoParam
  /\ UNCHANGED <<calls, mode, sort>>
  /\ events' = events + 1
  /\ UNCHANGED <<onChange, debounceMs, syncWithUrl, hasLocation, phase, urlAtMount>>

\* The parent re-renders and passes v as the value prop (v may be the same
\* value).  A controlled parent does so by setting its state to v; TicketList
\* never passes a value, so the prop keeps its default.
ParentRender(v) ==
  /\ phase = "mounted"
  /\ events < MaxEvents
  /\ mode = "TicketList" => v = Empty
  /\ \E x \in {Commit([Instance EXCEPT
                          !.value = v,
                          !.searchTerm = IF mode = "controlled" THEN v ELSE @],
                        Instance, FALSE)} : Writeback(x)
  /\ TextChange("prop")
  /\ lastAct' = "ParentRender"
  /\ lastSet' = IF mode = "controlled" /\ v # searchTerm THEN v ELSE lastSet
  /\ UNCHANGED <<calls, mode, sort>>
  /\ events' = events + 1
  /\ UNCHANGED <<onChange, debounceMs, syncWithUrl, hasLocation, phase, urlAtMount>>

\* The i-th pending timer is due: its callback runs setDebouncedValue(value);
\* setHasChanged(true) (one batched update).  On an unmounted component the
\* updates are dropped.
TimerFire(i) ==
  /\ i \in DOMAIN timers
  /\ timers[i].rem = 0
  /\ LET t == timers[i]
         c == [Instance EXCEPT
                 !.timers = RemoveAt(timers, i),
                 !.handler = IF handler = i THEN 0
                             ELSE IF handler > i THEN handler - 1 ELSE handler]
     IN \E x \in {IF phase = "mounted"
                   THEN Update([c EXCEPT !.debouncedValue = t.val, !.hasChanged = TRUE])
                   ELSE c} : Writeback(x)
  /\ lastAct' = "TimerFire"
  /\ UNCHANGED lastSet
  /\ UNCHANGED <<calls, mode, sort>>
  /\ UNCHANGED <<onChange, debounceMs, syncWithUrl, hasLocation, phase, lastChange, sinceChange,
                 events, urlAtMount>>

\* One clock tick passes; no timer is overdue
Tick ==
  /\ timers # <<>>
  /\ \A i \in DOMAIN timers : timers[i].rem > 0
  /\ timers' = [i \in DOMAIN timers |-> [timers[i] EXCEPT !.rem = @ - 1]]
  /\ sinceChange' = Min(sinceChange + 1, MaxDelay)
  /\ lastAct' = "Tick"
  /\ UNCHANGED <<calls, parent>>
  /\ fired' = <<>>
  /\ cancelled' = FALSE
  /\ UNCHANGED <<props, phase, hooks, handler, url, urlWritten, urlRead, threw, view,
                 lastChange, events, urlAtMount>>

\* The parent removes the component: every effect's cleanup runs
Unmount ==
  /\ phase = "mounted"
  /\ phase' = "unmounted"
  /\ \E x \in {[UnmountCleanup(Instance) EXCEPT !.view = NoView]} : Writeback(x)
  /\ lastAct' = "Unmount"
  /\ UNCHANGED lastSet
  /\ UNCHANGED <<calls, mode, sort>>
  /\ UNCHANGED <<onChange, debounceMs, syncWithUrl, hasLocation, lastChange, sinceChange,
                 events, urlAtMount>>

Next ==
  \/ Mount
  \/ \E v \in Texts : Keystroke(v)
  \/ Clear
  \/ \E v \in PropValues : ParentRender(v)
  \/ \E i \in 1..(MaxEvents + 2) : TimerFire(i)
  \/ Tick
  \/ Unmount

Spec == Init /\ [][Next]_vars

\* The event loop runs due timer callbacks and the clock advances
FairSpec == Spec /\ WF_vars(\E i \in 1..(MaxEvents + 2) : TimerFire(i)) /\ WF_vars(Tick)

\* ------------------------------------------------------------ renderBlocks
MaxBlocks == 2

\* the registry object literal: the registered tags and their components
registry == [Hero |-> "Hero", CardList |-> "CardList", CTA |-> "CTA"]

\* what a plain object inherits from Object.prototype: property name and value
ObjectPrototype == [constructor |-> "Object", toString |-> "Object.prototype.toString"]

\* the value of a property read that finds nothing
Undefined == "undefined"

\* registry[type]: an own property, else an inherited one, else undefined
Lookup(type) ==
  IF type \in DOMAIN registry THEN registry[type]
  ELSE IF type \in DOMAIN ObjectPrototype THEN ObjectPrototype[type]
  ELSE Undefined

\* block.type values: the registered tags and other strings
BlockTypes == DOMAIN registry \cup {"Wut", "constructor", "toString", "Hero-1", "1"}
\* block.props values (opaque objects)
BlockProps == {"props1", "props2"}
Block == [type : BlockTypes, props : BlockProps]
BlockSeqs == UNION {[1..n -> Block] : n \in 0..MaxBlocks}

getComponentAndProps(block) == [Comp |-> Lookup(block.type), props |-> block.props]

\* <div key={`unknown-${idx}`} role="note">Unknown block: {block.type}</div>
Placeholder(type, idx) ==
  [type |-> "div", key |-> <<"unknown", idx>>, role |-> "note",
   children |-> <<"Unknown block: ", type>>, props |-> "none"]

\* <Comp key={`${block.type}-${idx}`} {...props} />
Element(Comp, type, idx, p) ==
  [type |-> Comp, key |-> <<type, idx>>, role |-> "none", children |-> <<>>, props |-> p]

\* the callback of blocks.map; idx counts from 0
RenderBlock(block, idx) ==
  LET r == getComponentAndProps(block)
  IN IF r.Comp = Undefined THEN Placeholder(block.type, idx)
     ELSE Element(r.Comp, block.type, idx, r.props)

Known(block) == Lookup(block.type) # Undefined

\* (variant) blocks without a component are dropped before the map
renderBlocks_SkipUnknown(bs) ==
  LET kept == SelectSeq(bs, Known)
  IN [i \in DOMAIN kept |-> RenderBlock(kept[i], i - 1)]

renderBlocks(bs) == [i \in DOMAIN bs |-> RenderBlock(bs[i], i - 1)]

\* The SearchBar variables while no SearchBar is on the page
NoSearchBar ==
  /\ value = Empty /\ onChange = FALSE /\ debounceMs = 0
  /\ syncWithUrl = FALSE /\ hasLocation = TRUE
  /\ phase = "new"
  /\ inputValue = Empty /\ isClient = FALSE /\ isFirstRenderRef = TRUE
  /\ debouncedValue = Empty /\ isFirstRender = TRUE /\ hasChanged = FALSE
  /\ timers = <<>> /\ handler = 0
  /\ url = NoParam /\ urlWritten = FALSE /\ urlRead = FALSE /\ threw = FALSE
  /\ view = NoView
  /\ fired = <<>> /\ cancelled = FALSE /\ lastAct = "Init"
  /\ lastChange = "none" /\ sinceChange = 0 /\ events = 0 /\ urlAtMount = NoParam
  /\ mode = "free" /\ lastSet = NoParam

\* The TicketList variables while no TicketList is on the page
NoTicketList == searchTerm = Empty /\ sort = "price-asc" /\ displayed = <<>>

SearchBarVars == <<props, phase, hooks, env, view, hist, parent, displayed>>

RenderInit ==
  /\ NoSearchBar
  /\ NoTicketList
  /\ pc = "call"
  /\ blocks \in BlockSeqs
  /\ rendered = <<>>
  /\ input = NoInput
  /\ tickets = <<>>

\* a caller evaluates renderBlocks(blocks)
RenderBlocksCall ==
  /\ pc = "call"
  /\ rendered' = renderBlocks(blocks)
  /\ pc' = "return"
  /\ UNCHANGED <<SearchBarVars, blocks, input, tickets>>

RenderNext == RenderBlocksCall

RenderSpec == RenderInit /\ [][RenderNext]_vars

\* ------------------------------------------------------------ transformTickets
MaxItems == 2

\* A JavaScript value: its typeof-like tag t; for a number its kind k
\* ("finite", "NaN", "Infinity", "-Infinity") and, when finite, the value
\* n / d; for a string its characters s.
JsValue(t, k, n, d, s) == [t |-> t, k |-> k, n |-> n, d |-> d, s |-> s]
Undef == JsValue("undefined", "", 0, 1, <<>>)
Null == JsValue("null", "", 0, 1, <<>>)
Str(s) == JsValue("string", "", 0, 1, s)
Num(n) == JsValue("number", "finite", n, 1, <<>>)
NaN == JsValue("number", "NaN", 0, 1, <<>>)
Infinity == JsValue("number", "Infinity", 0, 1, <<>>)
NegInfinity == JsValue("number", "-Infinity", 0, 1, <<>>)

Untitled == <<"U", "n", "t", "i", "t", "l", "e", "d">>
USD == <<"U", "S", "D">>
EUR == <<"E", "U", "R">>
GBP == <<"G", "B", "P">>

\* String(n) for a non-negative integer
Digits == <<"0", "1", "2", "3", "4", "5", "6", "7", "8", "9">>
RECURSIVE ToDecimal(_)
ToDecimal(n) ==
  IF n < 10 THEN <<Digits[n + 1]>> ELSE ToDecimal(n \div 10) \o <<Digits[(n % 10) + 1]>>

\* (variant) the id is copied without conversion
String_Raw(v) == v

\* String(v)
String(v) ==
  CASE v.t = "string" -> v
    [] v.t = "number" /\ v.k = "finite" ->
         Str(IF v.n < 0 THEN <<"-">> \o ToDecimal(-v.n) ELSE ToDecimal(v.n))
    [] v.t = "number" /\ v.k = "NaN" -> Str(<<"N", "a", "N">>)
    [] v.t = "number" /\ v.k = "Infinity" -> Str(<<"I", "n", "f", "i", "n", "i", "t", "y">>)
    [] v.t = "number" /\ v.k = "-Infinity" ->
         Str(<<"-", "I", "n", "f", "i", "n", "i", "t", "y">>)
    [] v.t = "null" -> Str(<<"n", "u", "l", "l">>)
    [] OTHER -> Str(<<"u", "n", "d", "e", "f", "i", "n", "e", "d">>)

\* (variant) the kept title is the trimmed one
normalizeTitle_Trimmed(title) ==
  IF title.t # "string" \/ Trim(title.s) = <<>> THEN Str(Untitled) ELSE Str(Trim(title.s))

normalizeTitle(title) ==
  IF title.t # "string" \/ Trim(title.s) = <<>> THEN Str(Untitled) ELSE title

\* (variant) any string is accepted as a currency code
normalizeCurrency_AnyString(currency) ==
  IF currency.t = "string" THEN currency ELSE Str(USD)

normalizeCurrency(currency) ==
  IF currency = Str(USD) \/ currency = Str(EUR) \/ currency = Str(GBP)
  THEN currency ELSE Str(USD)

\* price_cents / 100 in IEEE arithmetic: an infinity stays an infinity
DivideBy100(v) == IF v.k = "finite" THEN [v EXCEPT !.d = v.d * 100] ELSE v

normalizePrice(price_cents) ==
  IF price_cents.t = "number" /\ price_cents.k # "NaN"
  THEN DivideBy100(price_cents) ELSE Num(0)

\* An element of the input array: its typeof tag and, for an object, whether
\* it has a property id ('id' in item) and the values its properties read as
\* (undefined when the property is missing)
Item(t, hasId, id, title, price_cents, currency) ==
  [t |-> t, hasId |-> hasId, id |-> id, title |-> title,
   price_cents |-> price_cents, currency |-> currency]
Primitive(t) == Item(t, FALSE, Undef, Undef, Undef, Undef)

\* (variant) the filter keeps the items whose id is truthy
Keep_Truthy(item) ==
  /\ item.t = "object"
  /\ item.hasId
  /\ item.id.t \notin {"null", "undefined"}
  /\ item.id \notin {Num(0), NaN, Str(<<>>)}

\* the filter's predicate
Keep(item) ==
  /\ item.t = "object"
  /\ item.hasId
  /\ item.id # Null
  /\ item.id # Undef

\* the map's callback
ToTicket(item) ==
  [id |-> String(item.id),
   title |-> normalizeTitle(item.title),
   price |-> normalizePrice(item.price_cents),
   currency |-> normalizeCurrency(item.currency)]

\* what a call that throws leaves in place of a result
Thrown == <<"TypeError">>

\* (variant) no Array.isArray guard: input.filter is not a function (or
\* input is null or undefined) and the call throws
transformTickets_NoGuard(in) ==
  IF in.t # "array" THEN Thrown
  ELSE LET kept == SelectSeq(in.items, Keep)
       IN [i \in DOMAIN kept |-> ToTicket(kept[i])]

\* (variant) the map callback normalises the record it is given in place
InputAfterCall_InPlace(in) ==
  [in EXCEPT !.items = [i \in DOMAIN in.items |->
                          IF Keep(in.items[i])
                          THEN [in.items[i] EXCEPT !.id = String(in.items[i].id)]
                          ELSE in.items[i]]]

\* The caller's value after the call: filter and map return new arrays and
\* their callbacks only read the item, so the argument is left as it was
InputAfterCall(in) == in

transformTickets(in) ==
  IF in.t # "array" THEN <<>>
  ELSE LET kept == SelectSeq(in.items, Keep)
       IN [i \in DOMAIN kept |-> ToTicket(kept[i])]

\* The raw values the inputs are made of
RawIds == {Undef, Null, Str(<<>>), Str(<<"0", "7">>), Num(0), Num(7), Num(42), Num(-1), NaN}
RawTitles == {Undef, Null, Num(5), Str(<<>>), Str(<<" ">>), Str(<<"a">>), Str(<<" ", "a", " ">>)}
RawPrices == {Undef, Null, Str(<<"1", "2">>), NaN, Infinity, NegInfinity,
              Num(0), Num(1999), Num(-500)}
RawCurrencies == {Undef, Null, Num(1), Str(USD), Str(EUR), Str(GBP),
                  Str(<<"C", "A", "D">>), Str(<<"J", "P", "Y">>), Str(<<"u", "s", "d">>)}

\* Each field is normalised by its own function, so the items vary one
\* field at a time around a well-formed record; some items are not records
BaseItem == Item("object", TRUE, Num(7), Str(<<"a">>), Num(1999), Str(EUR))
Items ==
  {[BaseItem EXCEPT !.id = v] : v \in RawIds}
    \cup {[BaseItem EXCEPT !.title = v] : v \in RawTitles}
    \cup {[BaseItem EXCEPT !.price_cents = v] : v \in RawPrices}
    \cup {[BaseItem EXCEPT !.currency = v] : v \in RawCurrencies}
    \cup {Item("object", FALSE, Undef, Str(<<"a">>), Num(1999), Str(EUR))}
    \cup {Primitive("null"), Primitive("number"), Primitive("string")}

ArrayInputs == {[t |-> "array", items |-> a] : a \in UNION {[1..n -> Items] : n \in 0..MaxItems}}
\* inputs that are not arrays: null, undefined, a string, a number, a plain object
OtherInputs ==
  {[t |-> k, items |-> <<>>] : k \in {"null", "undefined", "string", "number", "object"}}

TicketInit ==
  /\ NoSearchBar
  /\ NoTicketList
  /\ pc = "call"
  /\ blocks = <<>>
  /\ rendered = <<>>
  /\ input \in ArrayInputs \cup OtherInputs
  /\ tickets = <<>>

\* a caller evaluates transformTickets(input)
TransformTicketsCall ==
  /\ pc = "call"
  /\ tickets' = transformTickets(input)
  /\ input' = InputAfterCall(input)
  /\ pc' = "return"
  /\ UNCHANGED <<SearchBarVars, blocks, rendered>>

\* the caller evaluates transformTickets(input) a second time
TransformTicketsAgain ==
  /\ pc = "return"
  /\ tickets' = transformTickets(input)
  /\ input' = InputAfterCall(input)
  /\ pc' = "again"
  /\ UNCHANGED <<SearchBarVars, blocks, rendered>>

TicketNext == TransformTicketsCall \/ TransformTicketsAgain

TicketSpec == TicketInit /\ [][TicketNext]_vars

\* ------------------------------------------------------------ TicketList
MaxTickets == 3

SortOptions == {"price-asc", "price-desc", "title-asc"}

\* String.prototype.toLowerCase
ToLowerChar(ch) == CASE ch = "A" -> "a" [] ch = "B" -> "b" [] OTHER -> ch

\* (variant) the two strings are compared as they are
toLowerCase_Identity(str) == str

toLowerCase(str) == [i \in DOMAIN str |-> ToLowerChar(str[i])]

\* String.prototype.includes
RECURSIVE includes(_, _)
includes(str, searchString) ==
  \/ Len(searchString) <= Len(str) /\ SubSeq(str, 1, Len(searchString)) = searchString
  \/ str # <<>> /\ includes(Tail(str), searchString)

\* a - b on numbers: the difference of two infinities of one sign is NaN
Minus(a, b) ==
  CASE a.k = "finite" /\ b.k = "finite" ->
         JsValue("number", "finite", a.n * b.d - b.n * a.d, a.d * b.d, <<>>)
    [] a.k = "NaN" \/ b.k = "NaN" \/ (a.k = b.k /\ a.k # "finite") -> NaN
    [] a.k = "Infinity" \/ b.k = "-Infinity" -> Infinity
    [] OTHER -> NegInfinity

\* How Array.prototype.sort reads a comparator's result: its sign, NaN as 0
Sign(v) ==
  CASE v.k = "NaN" -> 0
    [] v.k = "Infinity" -> 1
    [] v.k = "-Infinity" -> -1
    [] OTHER -> IF v.n > 0 THEN 1 ELSE IF v.n < 0 THEN -1 ELSE 0

\* a.localeCompare(b) in the default collation: the letters are compared
\* without regard to case; strings with the same letters are ordered by
\* case, lower case first
Primary(ch) == CASE ch = " " -> 0 [] ToLowerChar(ch) = "a" -> 1 [] OTHER -> 2
Tertiary(ch) == IF ToLowerChar(ch) = ch THEN 0 ELSE 1
\* lexicographic comparison of two sequences of weights
RECURSIVE CompareWeights(_, _)
CompareWeights(a, b) ==
  IF a = <<>> \/ b = <<>> THEN (IF a = b THEN 0 ELSE IF a = <<>> THEN -1 ELSE 1)
  ELSE IF Head(a) < Head(b) THEN -1
  ELSE IF Head(a) > Head(b) THEN 1
  ELSE CompareWeights(Tail(a), Tail(b))
localeCompare(a, b) ==
  LET primary == CompareWeights([i \in DOMAIN a |-> Primary(a[i])],
                                [i \in DOMAIN b |-> Primary(b[i])])
  IN IF primary # 0 THEN primary
     ELSE CompareWeights([i \in DOMAIN a |-> Tertiary(a[i])],
                         [i \in DOMAIN b |-> Tertiary(b[i])])

\* sortComparators[o](a, b), as its sign
sortComparators(o, a, b) ==
  CASE o = "price-asc" -> Sign(Minus(a.price, b.price))
    [] o = "price-desc" -> Sign(Minus(b.price, a.price))
    [] OTHER -> localeCompare(a.title.s, b.title.s)

\* Array.prototype.sort(compareFn): a stable sort
RECURSIVE Insert(_, _, _)
Insert(sorted, x, o) ==
  IF sorted = <<>> THEN <<x>>
  ELSE IF sortComparators(o, Head(sorted), x) <= 0
       THEN <<Head(sorted)>> \o Insert(Tail(sorted), x, o)
       ELSE <<x>> \o sorted
RECURSIVE SortBy(_, _)
SortBy(list, o) ==
  IF list = <<>> THEN <<>>
  ELSE Insert(SortBy(SubSeq(list, 1, Len(list) - 1), o), list[Len(list)], o)

\* the useMemo of TicketList
filteredAndSortedTickets(list, term, o) ==
  LET normalizedSearchTerm == toLowerCase(term)
      Match(ticket) == includes(toLowerCase(ticket.title.s), normalizedSearchTerm)
      filtered == IF normalizedSearchTerm # <<>> THEN SelectSeq(list, Match) ELSE list
  IN SortBy(filtered, o)

\* The tickets the lists are made of: titles that differ in case, in length
\* and by a space, two equal prices, an infinite price
ListTicket(id, title, price) ==
  [id |-> Str(<<id>>), title |-> Str(title), price |-> price, currency |-> Str(USD)]
CatalogTickets ==
  {ListTicket("1", <<"a">>, DivideBy100(Num(1000))),
   ListTicket("2", <<"A", "b">>, DivideBy100(Num(500))),
   ListTicket("3", <<"B">>, DivideBy100(Num(1000))),
   ListTicket("4", <<"a", "b">>, DivideBy100(Num(2000))),
   ListTicket("5", <<"b", " ", "A">>, Infinity),
   ListTicket("6", <<"A">>, DivideBy100(Num(-500)))}
TicketLists == UNION {[1..n -> CatalogTickets] : n \in 0..MaxTickets}
SearchTerms == {<<>>, <<"a">>, <<"A">>, <<"B">>, <<"a", "b">>, <<" ">>}

FilterInit ==
  /\ NoSearchBar
  /\ pc = "call"
  /\ blocks = <<>>
  /\ rendered = <<>>
  /\ input = NoInput
  /\ tickets \in TicketLists
  /\ searchTerm \in SearchTerms
  /\ sort \in SortOptions
  /\ displayed = <<>>

\* TicketList renders with the state (searchTerm, sort) and the prop tickets
TicketListRender ==
  /\ pc = "call"
  /\ displayed' = filteredAndSortedTickets(tickets, searchTerm, sort)
  /\ pc' = "return"
  /\ UNCHANGED <<props, phase, hooks, env, view, hist, parent, blocks, rendered, input,
                 tickets>>

FilterNext == TicketListRender

FilterSpec == FilterInit /\ [][FilterNext]_vars

\* The SearchBar and its parent before the first render
Unmounted ==
  /\ phase = "new"
  /\ inputValue = value /\ isClient = FALSE /\ isFirstRenderRef = TRUE
  /\ debouncedValue = value /\ isFirstRender = TRUE /\ hasChanged = FALSE
  /\ timers = <<>> /\ handler = 0
  /\ url \in IF hasLocation /\ syncWithUrl
             THEN {NoParam} \cup {Encode(t) : t \in Texts} ELSE {NoParam}
  /\ urlWritten = FALSE /\ urlRead = FALSE /\ threw = FALSE
  /\ view = NoView
  /\ fired = <<>> /\ cancelled = FALSE /\ lastAct = "Init"
  /\ lastChange = "none" /\ sinceChange = 0 /\ events = 0 /\ urlAtMount = NoParam
  /\ pc = "SearchBar" /\ blocks = <<>> /\ rendered = <<>> /\ input = NoInput
  /\ displayed = <<>> /\ lastSet = NoParam

\* <TicketList tickets={...}/>: the SearchBar it embeds has no value prop,
\* onChange={handleSearchChange}, debounceMs={300} and syncWithUrl={true}
ListInit ==
  /\ mode = "TicketList"
  /\ value = Empty
  /\ onChange = TRUE
  /\ debounceMs = MaxDelay
  /\ syncWithUrl = TRUE
  /\ hasLocation \in BOOLEAN
  /\ Unmounted
  /\ tickets = <<>>
  /\ searchTerm = Empty
  /\ sort = "price-asc"

\* The user selects the sort option o: setSort(o), then TicketList and the
\* SearchBar in it render again
SetSort(o) ==
  /\ phase = "mounted"
  /\ events < MaxEvents
  /\ o # sort
  /\ sort' = o
  /\ \E x \in {Rerender(Instance)} : Writeback(x)
  /\ TextChange("prop")
  /\ lastAct' = "SetSort"
  /\ events' = events + 1
  /\ UNCHANGED <<onChange, debounceMs, syncWithUrl, hasLocation, phase, urlAtMount,
                 calls, mode, lastSet>>

ListNext == Next \/ \E o \in SortOptions : SetSort(o)

ListSpec == ListInit /\ [][ListNext]_vars

\* A parent that keeps the text in its own state: value={s} onChange={setS}
ControlledInit ==
  /\ mode = "controlled"
  /\ value \in PropValues
  /\ onChange = TRUE
  /\ debounceMs \in Delays
  /\ syncWithUrl = FALSE
  /\ hasLocation = TRUE
  /\ Unmounted
  /\ tickets = <<>>
  /\ searchTerm = value
  /\ sort = "price-asc"

ControlledSpec == ControlledInit /\ [][Next]_vars

\* ------------------------------------------------------------ properties
Mounted == phase = "mounted"
Pending(v) == timers = <<[val |-> v, rem |-> debounceMs - sinceChange]>>

\* C1: with D > 0 and an onChange callback, a burst of keystrokes causes
\* exactly one onChange invocation, made when the debounce window ends, with
\* the final keystroke's value and not before D has elapsed since it: no
\* keystroke of the burst invokes onChange, and the expiry that ends the
\* burst invokes it once with the current text.
C1_BurstFiresOnce ==
  (Mounted /\ onChange /\ debounceMs > 0) =>
    /\ lastAct = "Keystroke" => fired = <<>>
    /\ (lastAct = "TimerFire" /\ lastChange = "key") =>
         (fired = <<inputValue>> /\ sinceChange >= debounceMs)

\* C2: while nothing has changed the text since mount (no keystroke, clear,
\* value-prop change or URL seed), no action invokes onChange.
C2_NoCallbackWithoutChange ==
  (phase # "new" /\ lastChange = "none") => fired = <<>>

\* C3: each expiry of the debounce timer makes committed equal to current and
\* invokes onChange exactly once with the committed value, and nothing else
\* invokes onChange (invocations and commitments correspond one to one).
C3_OneCallPerCommit ==
  (Mounted /\ onChange) =>
    IF lastAct = "TimerFire"
    THEN debouncedValue = inputValue /\ fired = <<debouncedValue>>
    ELSE fired = <<>>

\* C4: trailing-edge debounce.  Under fair timers, once events stop the
\* committed value equals the current one for good; every text change
\* restarts the delay (the only pending timer carries the new text and the
\* full delay); and an expiry only ever commits the text that is current.
C4_TrailingEdge ==
  /\ <>[](Mounted => debouncedValue = inputValue)
  /\ [][(Mounted /\ inputValue' # inputValue) =>
          timers' = <<[val |-> inputValue', rem |-> debounceMs]>>]_vars
  /\ [][(Mounted /\ debouncedValue' # debouncedValue) =>
          (lastAct' = "TimerFire" /\ debouncedValue' = inputValue
             /\ inputValue' = inputValue)]_vars

\* a keystroke arrived while an earlier timer was pending and restarted the delay
C4_Witness ==
  /\ Mounted /\ debounceMs > 0 /\ lastAct = "Keystroke" /\ cancelled
  /\ events = 2 /\ lastChange = "key"
  /\ inputValue # debouncedValue
  /\ timers = <<[val |-> inputValue, rem |-> debounceMs]>>

\* C5: unmounting cancels the outstanding timer; after unmount the committed
\* value never changes and onChange is never invoked.
C5_UnmountCancels ==
  /\ [](phase = "unmounted" => timers = <<>>)
  /\ [][phase = "unmounted" => (debouncedValue' = debouncedValue /\ fired' = <<>>)]_vars

\* the component was unmounted while a commit was pending
C5_Witness ==
  /\ phase = "unmounted" /\ lastAct = "Unmount" /\ cancelled
  /\ inputValue # debouncedValue /\ onChange

\* C6: with debounceMs = 0 every keystroke's value is committed before any
\* later keystroke is processed: a keystroke is never handled while the text
\* of an earlier keystroke is still uncommitted.
C6_ZeroDelaySynchronous ==
  [][(Mounted /\ debounceMs = 0 /\ lastChange = "key" /\ lastAct' = "Keystroke") =>
       debouncedValue = inputValue]_vars

C8_SeedsBoth ==
  (Mounted /\ events = 0 /\ urlAtMount # NoParam /\ urlAtMount # Empty) =>
    (inputValue = urlAtMount /\ debouncedValue = urlAtMount)

\* C8 (amended): after mount current equals u; committed keeps the initial
\* value while the debounce timer started by the seeding is pending, and
\* equals u once that timer has expired.
C8_SeedsCurrent ==
  (Mounted /\ events = 0 /\ urlAtMount # NoParam /\ urlAtMount # Empty) =>
    /\ inputValue = urlAtMount
    /\ view.value = urlAtMount
    /\ IF timers # <<>>
       THEN Pending(urlAtMount) /\ debouncedValue = value
       ELSE debouncedValue = urlAtMount

\* the text was seeded from the address and later committed
C8_Witness ==
  /\ Mounted /\ events = 0 /\ lastChange = "seed" /\ lastAct = "TimerFire"
  /\ urlAtMount # value /\ inputValue = urlAtMount /\ debouncedValue = urlAtMount

\* C9: the clear control is offered exactly when current is non-empty;
\* activating it empties current at once and, when the debounce window that
\* follows expires, committed is empty and that expiry invokes onChange with
\* the empty string.
C9_Clear ==
  Mounted =>
    /\ view.clear <=> inputValue # Empty
    /\ lastAct = "Clear" => (inputValue = Empty /\ view.value = Empty)
    /\ (lastAct = "TimerFire" /\ lastChange = "clear") =>
         /\ debouncedValue = Empty
         /\ onChange => \E i \in DOMAIN fired : fired[i] = Empty

SyncOff(c) == [c EXCEPT !.syncWithUrl = FALSE, !.hasLocation = TRUE]

\* What the timer callback of timers[i] leaves behind on instance c
TimerUpdate(c, i) ==
  Update([c EXCEPT !.timers = RemoveAt(c.timers, i),
                   !.handler = IF c.handler = i THEN 0
                               ELSE IF c.handler > i THEN c.handler - 1 ELSE c.handler,
                   !.debouncedValue = c.timers[i].val,
                   !.hasChanged = TRUE])

\* C11: with syncWithUrl enabled and no window.location, no exception
\* escapes, the address is never read nor written, and the mount, every
\* keystroke and every timer callback leave the component, its timers and
\* its onChange calls exactly as they would with syncWithUrl disabled.
C11_NoLocationDegrades ==
  (syncWithUrl /\ ~hasLocation) =>
    /\ ~threw /\ ~urlRead /\ ~urlWritten /\ url = NoParam
    /\ phase = "new" =>
         SyncOff(Commit(Instance, Instance, TRUE))
           = Commit(SyncOff(Instance), SyncOff(Instance), TRUE)
    /\ phase = "mounted" =>
         /\ \A v \in Texts :
              SyncOff(Update([Instance EXCEPT !.inputValue = v]))
                = Update(SyncOff([Instance EXCEPT !.inputValue = v]))
         /\ \A i \in DOMAIN timers :
              timers[i].rem = 0 =>
                SyncOff(TimerUpdate(Instance, i)) = TimerUpdate(SyncOff(Instance), i)

C11_Witness ==
  /\ Mounted /\ syncWithUrl /\ ~hasLocation /\ onChange
  /\ lastAct = "TimerFire" /\ fired # <<>> /\ lastChange = "key"

\* C12: a block whose type is not one of the registered tags, whatever
\* string it is, is rendered at its own position as the placeholder <div
\* role="note">Unknown block: type</div>, and the elements at the other
\* positions do not depend on it.
C12_UnknownPlaceholder ==
  pc = "return" =>
    \A i \in DOMAIN blocks :
      blocks[i].type \notin DOMAIN registry =>
        /\ i \in DOMAIN rendered
        /\ rendered[i] = Placeholder(blocks[i].type, i - 1)
        /\ \A b \in Block : \A j \in DOMAIN blocks \ {i} :
             renderBlocks([blocks EXCEPT ![i] = b])[j] = rendered[j]

\* C13: renderBlocks returns as many elements as it was given blocks, and
\* the i-th element is what the i-th block renders to on its own, at index
\* i - 1: it carries that block's type in its key and that block's props (or
\* that block's type in the placeholder text).
C13_LengthAndOrder ==
  pc = "return" =>
    /\ Len(rendered) = Len(blocks)
    /\ \A i \in DOMAIN blocks :
         /\ rendered[i] = [renderBlocks(<<blocks[i]>>)[1] EXCEPT !.key[2] = i - 1]
         /\ rendered[i].key[2] = i - 1
         /\ \/ rendered[i].key[1] = blocks[i].type /\ rendered[i].props = blocks[i].props
            \/ rendered[i].children = <<"Unknown block: ", blocks[i].type>>

C13_Witness ==
  /\ pc = "return" /\ Len(blocks) = MaxBlocks
  /\ blocks[1] = blocks[2]
  /\ \E i \in DOMAIN blocks : blocks[i].type \notin DOMAIN registry
  /\ rendered[1] # rendered[2]

\* transformTickets has returned from a call on an array
Returned == pc = "return" /\ input.t = "array"

\* The records the filter is to keep: non-null objects whose id is neither
\* null nor undefined; KeptAt is the set of their positions in the input,
\* Rank(i) the position of the i-th element's ticket in the output, and
\* Source(k) the record the k-th ticket was made from
IsRecordWithId(item) == item.t = "object" /\ item.id.t \notin {"null", "undefined"}
KeptAt == {i \in DOMAIN input.items : IsRecordWithId(input.items[i])}
Rank(i) == Cardinality({j \in KeptAt : j <= i})
Source(k) == input.items[CHOOSE i \in KeptAt : Rank(i) = k]

\* C14: on an array, transformTickets returns one ticket per element that
\* is a non-null object with an id other than null and undefined, none for
\* the others, in input order: the ticket of the i-th element stands at the
\* position given by the number of kept elements up to i.
C14_KeepsRecordsWithId ==
  Returned =>
    /\ Len(tickets) = Cardinality(KeptAt)
    /\ \A i \in KeptAt :
         /\ Rank(i) \in DOMAIN tickets
         /\ <<tickets[Rank(i)]>>
              = transformTickets([t |-> "array", items |-> <<input.items[i]>>])

C14_Witness ==
  /\ Returned /\ Len(input.items) = MaxItems /\ Len(tickets) = 1
  /\ input.items[1].id = Null /\ input.items[MaxItems].id = Num(0)

\* C15: every ticket's id is a non-empty string.
C15_IdNonEmpty ==
  Returned => \A k \in DOMAIN tickets : tickets[k].id.t = "string" /\ tickets[k].id.s # <<>>

\* C16: a kept record's price is price_cents / 100 when price_cents is a
\* finite number, and 0 otherwise (missing, null, not a number, NaN,
\* Infinity, -Infinity).
C16_PriceFiniteOrZero ==
  Returned =>
    \A k \in DOMAIN tickets :
      LET cents == Source(k).price_cents
          price == tickets[k].price
      IN /\ price.t = "number" /\ price.k = "finite"
         /\ IF cents.t = "number" /\ cents.k = "finite"
            THEN price.n * 100 * cents.d = cents.n * price.d
            ELSE price.n = 0

\* C17: every ticket's price is greater than or equal to 0.
C17_PriceNonNegative ==
  Returned =>
    \A k \in DOMAIN tickets :
      /\ tickets[k].price.t = "number"
      /\ \/ tickets[k].price.k = "Infinity"
         \/ tickets[k].price.k = "finite" /\ tickets[k].price.n >= 0

\* the integer a decimal numeral denotes; -1 stands for "not a canonical numeral"
DigitValue(ch) == CHOOSE d \in 0..9 : Digits[d + 1] = ch
RECURSIVE ParseNat(_)
ParseNat(s) ==
  IF Len(s) = 1 THEN DigitValue(s[1])
  ELSE ParseNat(SubSeq(s, 1, Len(s) - 1)) * 10 + DigitValue(s[Len(s)])
IsNumeral(s) ==
  /\ s # <<>>
  /\ \A i \in DOMAIN s : \E d \in 0..9 : Digits[d + 1] = s[i]
  /\ Len(s) > 1 => s[1] # "0"

\* C18: a kept record's output id is a string: the raw id itself when that is
\* a string, the canonical decimal numeral of the raw id when that is a
\* finite number (with a leading "-" when negative), and "NaN" for NaN.
C18_IdIsStringOfRaw ==
  Returned =>
    \A k \in DOMAIN tickets :
      LET raw == Source(k).id
          out == tickets[k].id
      IN /\ out.t = "string"
         /\ raw.t = "string" => out.s = raw.s
         /\ (raw.t = "number" /\ raw.k = "finite" /\ raw.n >= 0) =>
              IsNumeral(out.s) /\ ParseNat(out.s) = raw.n
         /\ (raw.t = "number" /\ raw.k = "finite" /\ raw.n < 0) =>
              /\ Len(out.s) > 1 /\ out.s[1] = "-"
              /\ IsNumeral(Tail(out.s)) /\ ParseNat(Tail(out.s)) = -raw.n
         /\ raw = NaN => out.s = <<"N", "a", "N">>

C18_Witness ==
  /\ Returned /\ Len(tickets) = MaxItems
  /\ Source(1).id = Num(42) /\ tickets[1].id = Str(<<"4", "2">>)
  /\ Source(MaxItems).id = Str(<<"0", "7">>) /\ tickets[MaxItems].id = Str(<<"0", "7">>)

\* a string with no character other than whitespace (the empty string included)
Blank(str) == \A i \in DOMAIN str : str[i] = " "

\* C19: a kept record's output title is "Untitled" when the raw title is not
\* a string or is a blank string, and is otherwise the raw string itself,
\* surrounding whitespace included.
C19_TitleDefaultOrVerbatim ==
  Returned =>
    \A k \in DOMAIN tickets :
      LET raw == Source(k).title
      IN tickets[k].title = IF raw.t = "string" /\ ~Blank(raw.s) THEN raw ELSE Str(Untitled)

C19_Witness ==
  /\ Returned /\ Len(tickets) = MaxItems
  /\ Source(1).title = Str(<<" ", "a", " ">>) /\ tickets[1].title = Str(<<" ", "a", " ">>)
  /\ Source(MaxItems).title = Str(<<" ">>) /\ tickets[MaxItems].title = Str(Untitled)

\* C20: a kept record's output currency is the raw currency when that is
\* exactly "USD", "EUR" or "GBP" and "USD" otherwise, and every record with
\* an id has a ticket, whatever its currency.
C20_CurrencyKnownOrUSD ==
  Returned =>
    /\ \A i \in DOMAIN input.items :
         IsRecordWithId(input.items[i]) => Rank(i) \in DOMAIN tickets
    /\ \A k \in DOMAIN tickets :
         LET raw == Source(k).currency
         IN tickets[k].currency =
              IF raw.t = "string" /\ raw.s \in {USD, EUR, GBP} THEN raw ELSE Str(USD)

C20_Witness ==
  /\ Returned /\ Len(tickets) = MaxItems
  /\ Source(1).currency = Str(<<"C", "A", "D">>) /\ tickets[1].currency = Str(USD)
  /\ Source(MaxItems).currency = Str(GBP) /\ tickets[MaxItems].currency = Str(GBP)

\* C21: on an input that is not an array (null, undefined, a string, a
\* number, a plain object) and on the empty array, transformTickets returns
\* the empty sequence and does not throw.
C21_NonArrayGivesEmpty ==
  (pc \in {"return", "again"} /\ (input.t # "array" \/ input.items = <<>>)) =>
    tickets = <<>> /\ tickets # Thrown

C21_Witness == pc = "return" /\ input.t = "object" /\ tickets = <<>>

SameLetter(a, b) == a = b \/ {a, b} = {"a", "A"} \/ {a, b} = {"b", "B"}

\* title contains term, compared without regard to case
ContainsIgnoringCase(title, term) ==
  \E k \in 0..(Len(title) - Len(term)) :
    \A i \in 1..Len(term) : SameLetter(title[k + i], term[i])

\* number of occurrences of x in list
Count(list, x) == Cardinality({i \in DOMAIN list : list[i] = x})

\* a <= b on prices
PriceLeq(a, b) ==
  \/ a.k = "-Infinity" \/ b.k = "Infinity"
  \/ a.k = "finite" /\ b.k = "finite" /\ a.n * b.d <= b.n * a.d

\* a comes no later than b in alphabetical order, case disregarded
Letter(ch) == CASE ch = " " -> 0 [] ch \in {"a", "A"} -> 1 [] ch \in {"b", "B"} -> 2
AlphabeticalLeq(a, b) ==
  \/ Len(a) <= Len(b) /\ \A i \in 1..Len(a) : Letter(a[i]) = Letter(b[i])
  \/ \E k \in 1..Min(Len(a), Len(b)) :
       /\ \A i \in 1..(k - 1) : Letter(a[i]) = Letter(b[i])
       /\ Letter(a[k]) < Letter(b[k])

C24_SortAndSearchIndependent ==
  [][/\ sort' # sort => (inputValue' = inputValue /\ searchTerm' = searchTerm)
     /\ (inputValue' # inputValue \/ debouncedValue' # debouncedValue
           \/ searchTerm' # searchTerm) => sort' = sort]_vars

C24_Witness ==
  /\ mode = "TicketList" /\ Mounted /\ lastAct = "SetSort" /\ sort = "title-asc"
  /\ searchTerm = <<"a">> /\ inputValue = <<"a">> /\ fired # <<>>

\* C29: while the SearchBar of a TicketList is mounted, searchTerm is the
\* SearchBar's committed value in every state between two tasks, so the
\* list is filtered by the committed text and never by text whose debounce
\* timer is still pending.
C29_TermIsCommitted ==
  (mode = "TicketList" /\ Mounted) =>
    /\ searchTerm = debouncedValue
    /\ inputValue # debouncedValue => searchTerm # inputValue

C29_Witness ==
  /\ mode = "TicketList" /\ Mounted /\ lastAct = "Keystroke"
  /\ searchTerm = <<"a">> /\ inputValue = Empty /\ timers # <<>>

\* C25: in controlled use, once the parent has set its state to v by itself
\* and the user has not changed the text since, every state with no timer
\* pending has current = committed = parent's state = v.
C25_ParentValueSettles ==
  (mode = "controlled" /\ Mounted /\ lastSet # NoParam /\ timers = <<>>) =>
    inputValue = lastSet /\ debouncedValue = lastSet /\ searchTerm = lastSet

\* C26: at most one debounce timer is pending, and it carries the current
\* text; a keystroke or clear that changes the text cancels the pending
\* timer and leaves exactly one, for the new text; a value is committed only
\* by the one pending timer, so a cancelled timer never commits.
C26_OnePendingTimer ==
  /\ [](/\ Len(timers) <= 1
        /\ timers # <<>> => (handler = 1 /\ Mounted /\ timers[1].val = inputValue))
  /\ [][/\ (lastAct' \in {"Keystroke", "Clear"} /\ inputValue' # inputValue) =>
            /\ timers # <<>> => cancelled'
            /\ timers' = <<[val |-> inputValue', rem |-> debounceMs]>>
        /\ debouncedValue' # debouncedValue =>
            timers = <<[val |-> debouncedValue', rem |-> 0]>>]_vars

C26_Witness ==
  /\ Mounted /\ lastAct = "Clear" /\ cancelled
  /\ timers = <<[val |-> Empty, rem |-> debounceMs]>> /\ debouncedValue # Empty

\* C27: with URL sync on and the parameter in the address with a non-empty
\* value when the SearchBar mounts, the parameter keeps that value in every
\* state until the first keystroke, clear or new value prop, also after an
\* unmount.
C27_ParamKeptUntilChange ==
  (syncWithUrl /\ hasLocation /\ phase # "new" /\ events = 0
     /\ urlAtMount # NoParam /\ urlAtMount # Empty) =>
    UrlGet(url) = urlAtMount

\* A SearchBar has committed a text and written the address
CommittedAndWritten ==
  Mounted /\ syncWithUrl /\ hasLocation /\ hasChanged /\ urlWritten /\ timers = <<>>

\* A new SearchBar (URL sync on, no value prop) mounted against the current
\* address, and the same after its debounce timer has fired
FreshMount ==
  Only({Commit(f, f, TRUE) : f \in {Fresh([Instance EXCEPT !.value = Empty])}})
AfterWindow(m) ==
  IF m.timers = <<>> THEN m
  ELSE Commit([m EXCEPT !.timers = <<>>, !.handler = 0,
                        !.debouncedValue = m.timers[1].val, !.hasChanged = TRUE],
              m, FALSE)

TagChars(type) ==
  CASE type = "Hero" -> <<"H", "e", "r", "o">>
    [] type = "CardList" -> <<"C", "a", "r", "d", "L", "i", "s", "t">>
    [] type = "CTA" -> <<"C", "T", "A">>
    [] type = "Wut" -> <<"W", "u", "t">>
    [] type = "constructor" -> <<"c", "o", "n", "s", "t", "r", "u", "c", "t", "o", "r">>
    [] type = "toString" -> <<"t", "o", "S", "t", "r", "i", "n", "g">>
    [] type = "Hero-1" -> <<"H", "e", "r", "o", "-", "1">>
    [] type = "1" -> <<"1">>
    [] type = "unknown" -> <<"u", "n", "k", "n", "o", "w", "n">>

\* the string a key template evaluates to: `${prefix}-${idx}`
KeyString(key) == TagChars(key[1]) \o <<"-">> \o ToDecimal(key[2])

\* C30: the element of a registered block at position i has the key
\* "type-i", the element of an unregistered block the key "unknown-i"
\* (positions counted from 0), and the keys of one output are pairwise
\* distinct strings.
C30_Keys ==
  pc = "return" =>
    /\ \A i \in DOMAIN blocks :
         KeyString(rendered[i].key) =
           (IF blocks[i].type \in DOMAIN registry
            THEN TagChars(blocks[i].type) ELSE TagChars("unknown"))
             \o <<"-">> \o ToDecimal(i - 1)
    /\ \A i, j \in DOMAIN rendered :
         i # j => KeyString(rendered[i].key) # KeyString(rendered[j].key)

====
